---- MODULE Spec2Model ----
(***************************************************************************)
(* Model of the Image-Searcher front end: the upload page (the backend     *)
(* variant with uploadOne and the simulated variant with simulateUpload),  *)
(* the search page (backend-connected and over mockItems), the proxy       *)
(* route, the lazy loader of pdf.js and the navigation between the pages.  *)
(***************************************************************************)
EXTENDS Integers, Sequences, FiniteSets, TLC

VARIABLES
  variant,      \* upload page: "real" (uploadOne) or "sim" (simulateUpload)
  uploadFiles,  \* upload page: useState<UploadFile[]>
  nextId,       \* upload page: number of entry ids generated so far, plus one
  xfer,         \* upload page: per entry id, the POST /upload requests issued
  ramp,         \* upload page: entry ids whose setInterval timer is active
  scans,        \* upload page: per entry id, its POST /ingest/scan request
  searchQuery,  \* search page: useState("") bound to the input
  items,        \* search page: useState<Item[]>([])
  loading,      \* search page: useState(false)
  searches,     \* search page: per runSearch call, its request in flight or how it ended
  nextReq,      \* search page: number of runSearch calls so far, plus one
  lastResp,     \* search page: the runSearch call that resumed last (0: none) and the list it received
  listing,      \* search page: the mount effect's GET /items and the list it received
  page,         \* search page: "real" (backend-connected) or "mock" (static mockItems)
  sortBy,       \* search page: useState("date")
  selectedTypes,\* search page: useState<string[]>([])
  selectedTags, \* search page: useState<string[]>([])
  calls,        \* proxy route: per incoming POST, its query, its position and its response
  pdfjsPromise, \* per module, the module-level variable pdfjsPromise
  imports,      \* per module, the number of import("pdfjs-dist/build/pdf") calls made
  callers,      \* per getPdfjs call, the module it belongs to and its position
  currentPage,  \* Home: useState("upload")
  unmounted,    \* the page components whose instance has been unmounted
  thumbs        \* PdfThumbnail: the runs of its effect, each with its props, its flag mounted and its position

uploadVars == <<variant, uploadFiles, nextId, xfer, ramp, scans>>
searchVars == <<searchQuery, items, loading, searches, nextReq, lastResp, listing>>
viewVars == <<page, sortBy, selectedTypes, selectedTags>>
routeVars == <<calls>>
libVars == <<pdfjsPromise, imports, callers>>
lifeVars == <<currentPage, unmounted, thumbs>>
vars == <<variant, uploadFiles, nextId, xfer, ramp, scans,
          searchQuery, items, loading, searches, nextReq, lastResp, listing,
          page, sortBy, selectedTypes, selectedTags, calls,
          pdfjsPromise, imports, callers, currentPage, unmounted, thumbs>>

(***************************************************************************)
(* Bounds of the model.                                                    *)
(***************************************************************************)
MaxFiles == 2      \* entries created over a session
MaxSel == 2        \* files in one selection
MaxSearches == 2   \* runSearch calls over a session
MaxCalls == 2      \* POST requests the proxy route receives
MaxTagSel == 2     \* tags selected at once on the search page
MaxViewSearches == 1 \* runSearch calls over a session in which the view is observed
MaxCallers == 3    \* getPdfjs calls over a session
MaxRuns == 2       \* runs of the effect of one PdfThumbnail
MaxLifeFiles == 1  \* entries created over a session with navigation
MaxLifeSearches == 1 \* runSearch calls over a session with navigation

Min(a, b) == IF a < b THEN a ELSE b

(***************************************************************************)
(* Upload page.                                                            *)
(***************************************************************************)
allowedTypes == {"application/pdf"}
maxFileSize == 10 * 1024 * 1024
desiredWidth == 160

\* The files a user can select: name, MIME type, size in bytes, and whether
\* pdf.js can render the content. One file passes both checks and renders (its
\* size is the largest allowed); one fails each check; one passes the checks
\* and cannot be rendered.
FileKinds ==
  { [name |-> "max.pdf", type |-> "application/pdf", size |-> maxFileSize,      content |-> "pdf"],
    [name |-> "big.pdf", type |-> "application/pdf", size |-> maxFileSize + 1,  content |-> "pdf"],
    [name |-> "p.png",   type |-> "image/png",       size |-> 2 * 1024 * 1024,  content |-> "png"],
    [name |-> "bad.pdf", type |-> "application/pdf", size |-> 2 * 1024 * 1024,  content |-> "corrupt"] }

Selections == UNION { [1..n -> FileKinds] : n \in 0..MaxSel }

validateFile(file) ==
  IF file.type \notin allowedTypes THEN "Invalid file type. Only PDF is allowed."
  ELSE IF file.size > maxFileSize THEN "File size exceeds 10MB limit."
  ELSE "null"

\* generatePdfThumbnail has no try/catch: it resolves to a data URL or rejects.
generatePdfThumbnail(file) ==
  IF file.content = "pdf"
  THEN [threw |-> FALSE, url |-> <<"png", file.name, desiredWidth>>]
  ELSE [threw |-> TRUE]

createPreview(file) == generatePdfThumbnail(file)

\* The loop of handleFiles from index i on; a rejected await leaves the loop
\* and the function without reaching setUploadFiles.
RECURSIVE HandleLoop(_, _, _, _)
HandleLoop(files, i, newFiles, firstId) ==
  IF i > Len(files) THEN [threw |-> FALSE, newFiles |-> newFiles]
  ELSE IF validateFile(files[i]) = "null"
       THEN LET p == createPreview(files[i]) IN
            IF p.threw THEN [threw |-> TRUE, newFiles |-> newFiles]
            ELSE HandleLoop(files, i + 1,
                   Append(newFiles, [id |-> firstId + Len(newFiles),
                                     file |-> files[i],
                                     progress |-> 0,
                                     status |-> "pending",
                                     preview |-> p.url]),
                   firstId)
       ELSE HandleLoop(files, i + 1, newFiles, firstId)

RECURSIVE CountValid(_)
CountValid(files) ==
  IF files = <<>> THEN 0
  ELSE (IF validateFile(Head(files)) = "null" THEN 1 ELSE 0) + CountValid(Tail(files))

\* The selections that create at most b entries, tabulated.
SelectionsUpTo == [b \in 0..MaxFiles |-> { sel \in Selections : CountValid(sel) <= b }]

\* The selections the model lets the user make: those that keep the number of
\* entries created within MaxFiles.
Selectable == SelectionsUpTo[MaxFiles - (nextId - 1)]

MapFiles(fs, F(_)) == [i \in DOMAIN fs |-> F(fs[i])]

Ids(fs) == { fs[i].id : i \in DOMAIN fs }

EntryOf(fs, id) == fs[CHOOSE i \in DOMAIN fs : fs[i].id = id]

\* The collection after a handleFiles call on sel: setUploadFiles((prev) =>
\* [...prev, ...newFiles]), which a rejected await does not reach.
AfterHandleFiles(sel) ==
  LET r == HandleLoop(sel, 1, <<>>, nextId) IN
    IF r.threw THEN uploadFiles ELSE uploadFiles \o r.newFiles

\* handleFiles (handleDrop / handleFileInput). The call reads nothing but its
\* argument while it is suspended at its awaits and writes once, with a
\* functional update, at its end; it is taken as one step at that write. A
\* rejected await ends the call without the write.
handleFiles(sel) ==
  /\ sel \in Selectable
  /\ uploadFiles' = AfterHandleFiles(sel)
  /\ nextId' = nextId + (Len(uploadFiles') - Len(uploadFiles))
  /\ UNCHANGED <<variant, xfer, ramp, scans>>
  /\ UNCHANGED <<searchVars, viewVars, routeVars, libVars, lifeVars>>

\* Mutant: the Upload button is also rendered for failed entries.
UploadButtonShown_AlsoError(f) == f.status \in {"pending", "error"}

\* The per-entry Upload button is rendered for pending entries only.
UploadButtonShown(f) == f.status = "pending"

\* Mutant: uploadAll also restarts failed entries.
UploadAllPicks_AlsoError(f) == f.status \in {"pending", "error"}

\* Mutant: uploadAll starts an upload for every entry.
UploadAllPicks_Any(f) == TRUE

\* uploadAll starts an upload for these entries.
UploadAllPicks(f) == f.status = "pending"

\* Mutant: the ramp has no upper limit.
RampProgress_NoLimit(p) == p + 7

\* Mutant: the ramp wraps around instead of saturating.
RampProgress_Wraps(p) == (p + 7) % 85

\* The progress the ramp interval writes: Math.min(f.progress + 7, 85).
RampProgress(p) == Min(p + 7, 85)

\* uploadOne up to its await of fetch, for the entries whose ids are in S.
StartUploads(S) ==
  /\ uploadFiles' = MapFiles(uploadFiles,
       LAMBDA f : IF f.id \in S THEN [f EXCEPT !.status = "uploading", !.progress = 5] ELSE f)
  /\ ramp' = ramp \cup S
  /\ xfer' = [id \in DOMAIN xfer |->
               IF id \in S THEN [n |-> xfer[id].n + 1, st |-> "sent"] ELSE xfer[id]]
  /\ UNCHANGED <<variant, nextId, scans>>
  /\ UNCHANGED <<searchVars, viewVars, routeVars, libVars, lifeVars>>

uploadOne(id) ==
  /\ variant = "real"
  /\ \E i \in DOMAIN uploadFiles : uploadFiles[i].id = id /\ UploadButtonShown(uploadFiles[i])
  /\ StartUploads({id})

uploadAll ==
  /\ variant = "real"
  /\ \E i \in DOMAIN uploadFiles : uploadFiles[i].status = "pending"
  /\ StartUploads({ uploadFiles[i].id : i \in { j \in DOMAIN uploadFiles : UploadAllPicks(uploadFiles[j]) } })

\* One firing of the ramp interval of uploadOne.
RampTick(id) ==
  /\ variant = "real"
  /\ id \in ramp
  /\ uploadFiles' = MapFiles(uploadFiles,
       LAMBDA f : IF f.id = id /\ f.status = "uploading"
                  THEN [f EXCEPT !.progress = RampProgress(f.progress)] ELSE f)
  /\ UNCHANGED <<variant, nextId, xfer, ramp, scans>>
  /\ UNCHANGED <<searchVars, viewVars, routeVars, libVars, lifeVars>>

UploadOutcomes == {"ok", "notok", "rejected"}

\* Mutant: the check of resp.ok is missing.
OnUploadOutcome_NoOkCheck(f, o) ==
  IF o \in {"ok", "notok"} THEN [f EXCEPT !.status = "completed", !.progress = 100]
  ELSE [f EXCEPT !.status = "error"]

\* What uploadOne writes into its entry when the request has the outcome o.
OnUploadOutcome(f, o) ==
  IF o = "ok" THEN [f EXCEPT !.status = "completed", !.progress = 100]
  ELSE [f EXCEPT !.status = "error"]

\* The ramp timers left active when the request of id has the outcome o:
\* clearInterval is reached only when fetch resolves.
RampAfter(id, o) == IF o = "rejected" THEN ramp ELSE ramp \ {id}

\* Mutant: the end of an upload writes an entry also when none has its id.
SettleFiles_Reinserts(fs, id, o) ==
  IF id \in Ids(fs)
  THEN MapFiles(fs, LAMBDA f : IF f.id = id THEN OnUploadOutcome(f, o) ELSE f)
  ELSE Append(fs, OnUploadOutcome([id |-> id,
                                   file |-> CHOOSE k \in FileKinds : k.name = "max.pdf",
                                   progress |-> 5, status |-> "uploading",
                                   preview |-> <<>>], o))

\* Mutant: the end of an upload rebuilds the entry without its preview.
SettleFiles_DropsPreview(fs, id, o) ==
  MapFiles(fs, LAMBDA f : IF f.id = id THEN [OnUploadOutcome(f, o) EXCEPT !.preview = <<>>] ELSE f)

\* The collection after the last setUploadFiles of an uploadOne call:
\* prev.map((f) => (f.id === fileRec.id ? {...f, ...} : f))
SettleFiles(fs, id, o) ==
  MapFiles(fs, LAMBDA f : IF f.id = id THEN OnUploadOutcome(f, o) ELSE f)

\* Mutant: the re-scan is requested whatever the upload's response.
ScanAfter_Always(s, o) == "sent"

\* The re-scan request of an entry after its upload had the outcome o: the
\* fetch of /ingest/scan comes after the throw for a response that is not ok.
ScanAfter(s, o) == IF o = "ok" THEN "sent" ELSE s

\* uploadOne from its await of fetch to its end.
UploadSettle(id, o) ==
  /\ variant = "real"
  /\ id \in DOMAIN xfer
  /\ xfer[id].st = "sent"
  /\ xfer' = [xfer EXCEPT ![id].st = o]
  /\ ramp' = RampAfter(id, o)
  /\ scans' = [scans EXCEPT ![id] = ScanAfter(scans[id], o)]
  /\ uploadFiles' = SettleFiles(uploadFiles, id, o)
  /\ UNCHANGED <<variant, nextId>>
  /\ UNCHANGED <<searchVars, viewVars, routeVars, libVars, lifeVars>>

\* How the re-scan request can end; it can also stay without a response.
ScanOutcomes == {"ok", "notok", "rejected"}

\* The re-scan request of an entry ends: nothing awaits the promise, and its
\* rejection is swallowed by .catch(() => {}).
ScanSettle(id, o) ==
  /\ variant = "real"
  /\ id \in DOMAIN scans
  /\ scans[id] = "sent"
  /\ scans' = [scans EXCEPT ![id] = o]
  /\ UNCHANGED <<variant, uploadFiles, nextId, xfer, ramp>>
  /\ UNCHANGED <<searchVars, viewVars, routeVars, libVars, lifeVars>>

\* Mutant: the entries after the removed one are dropped with it.
AfterRemove_DropsRest(fs, id) ==
  SubSeq(fs, 1, (CHOOSE i \in DOMAIN fs : fs[i].id = id) - 1)

\* prev.filter((f) => f.id !== fileId)
AfterRemove(fs, id) == SelectSeq(fs, LAMBDA f : f.id # id)

removeFile(id) ==
  /\ id \in Ids(uploadFiles)
  /\ uploadFiles' = AfterRemove(uploadFiles, id)
  /\ UNCHANGED <<variant, nextId, xfer, ramp, scans>>
  /\ UNCHANGED <<searchVars, viewVars, routeVars, libVars, lifeVars>>

\* Math.random() * 20 lies in [0, 20): its least value and a value near its largest.
SimSteps == {0, 19}

StartSimulated(S) ==
  /\ uploadFiles' = MapFiles(uploadFiles,
       LAMBDA f : IF f.id \in S THEN [f EXCEPT !.status = "uploading"] ELSE f)
  /\ ramp' = ramp \cup S
  /\ UNCHANGED <<variant, nextId, xfer, scans>>
  /\ UNCHANGED <<searchVars, viewVars, routeVars, libVars, lifeVars>>

simulateUpload(id) ==
  /\ variant = "sim"
  /\ \E i \in DOMAIN uploadFiles : uploadFiles[i].id = id /\ UploadButtonShown(uploadFiles[i])
  /\ StartSimulated({id})

simUploadAll ==
  /\ variant = "sim"
  /\ \E i \in DOMAIN uploadFiles : uploadFiles[i].status = "pending"
  /\ StartSimulated({ uploadFiles[i].id : i \in { j \in DOMAIN uploadFiles : UploadAllPicks(uploadFiles[j]) } })

SimProgress(p, r) == Min(p + r, 100)

\* One firing of the interval of simulateUpload.
SimTick(id, r) ==
  /\ variant = "sim"
  /\ id \in ramp
  /\ LET hit == \E i \in DOMAIN uploadFiles :
                   /\ uploadFiles[i].id = id
                   /\ uploadFiles[i].status = "uploading"
                   /\ SimProgress(uploadFiles[i].progress, r) >= 100
     IN
       /\ uploadFiles' = MapFiles(uploadFiles,
            LAMBDA f : IF f.id = id /\ f.status = "uploading"
                       THEN IF SimProgress(f.progress, r) >= 100
                            THEN [f EXCEPT !.progress = 100, !.status = "completed"]
                            ELSE [f EXCEPT !.progress = SimProgress(f.progress, r)]
                       ELSE f)
       /\ ramp' = IF hit THEN ramp \ {id} ELSE ramp
  /\ UNCHANGED <<variant, nextId, xfer, scans>>
  /\ UNCHANGED <<searchVars, viewVars, routeVars, libVars, lifeVars>>

(***************************************************************************)
(* Properties of the upload page.                                          *)
(***************************************************************************)
\* An entry without a preview: the optional field preview left undefined.
NoPreview == <<>>

StatusOf(fs, id) == EntryOf(fs, id).status

Kept == Ids(uploadFiles) \cap Ids(uploadFiles')

AllowedTransitions ==
  { <<"pending", "uploading">>, <<"uploading", "completed">>, <<"uploading", "error">> }

\* C1: in every step, an entry that stays in the collection keeps its status
\* or moves pending -> uploading, uploading -> completed or uploading -> error;
\* so a completed entry never changes status and no entry returns to pending.
C1_StatusTransitions ==
  [][\A id \in Kept :
       \/ StatusOf(uploadFiles', id) = StatusOf(uploadFiles, id)
       \/ <<StatusOf(uploadFiles, id), StatusOf(uploadFiles', id)>> \in AllowedTransitions]_vars

C1_Witness ==
  /\ variant = "real"
  /\ \E i, j \in DOMAIN uploadFiles :
       uploadFiles[i].status = "completed" /\ uploadFiles[j].status = "error"

\* C2: (backend variant) uploadOne on a pending entry sets it to uploading and
\* issues one POST /upload for it; a success response makes the entry, if still
\* present, completed with progress 100; a non-success response or a rejected
\* request makes it error; requests are issued by uploadOne/uploadAll steps
\* only, and never more than one per entry.
C2_SingleAttempt ==
  /\ [](\A id \in DOMAIN xfer : xfer[id].n <= 1)
  /\ [][\A id \in DOMAIN xfer :
          /\ uploadOne(id) =>
               /\ StatusOf(uploadFiles, id) = "pending"
               /\ StatusOf(uploadFiles', id) = "uploading"
               /\ xfer'[id] = [n |-> xfer[id].n + 1, st |-> "sent"]
               /\ \A other \in DOMAIN xfer \ {id} : xfer'[other] = xfer[other]
          /\ (xfer[id].st = "sent" /\ xfer'[id].st = "ok" /\ id \in Ids(uploadFiles)) =>
               /\ id \in Ids(uploadFiles')
               /\ StatusOf(uploadFiles', id) = "completed"
               /\ EntryOf(uploadFiles', id).progress = 100
          /\ (xfer[id].st = "sent" /\ xfer'[id].st \in {"notok", "rejected"}
                /\ id \in Ids(uploadFiles)) =>
               /\ id \in Ids(uploadFiles')
               /\ StatusOf(uploadFiles', id) = "error"
          /\ xfer'[id].n # xfer[id].n => (uploadOne(id) \/ uploadAll)]_vars

C2_Witness ==
  \E i, j \in DOMAIN uploadFiles :
    /\ uploadFiles[i].status = "completed" /\ uploadFiles[i].progress = 100
    /\ xfer[uploadFiles[i].id] = [n |-> 1, st |-> "ok"]
    /\ uploadFiles[j].status = "error"
    /\ xfer[uploadFiles[j].id] = [n |-> 1, st |-> "notok"]

\* C3: in every step, the progress of an entry that stays in the collection
\* does not decrease.
C3_ProgressMonotone ==
  [][\A id \in Kept :
       EntryOf(uploadFiles', id).progress >= EntryOf(uploadFiles, id).progress]_vars

C3_Witness ==
  \E i, j \in DOMAIN uploadFiles :
    /\ uploadFiles[i].status = "uploading" /\ uploadFiles[i].progress = 85
    /\ uploadFiles[j].status = "error" /\ uploadFiles[j].progress > 5

\* The files of a selection that pass the type and the size check.
ValidOf(sel) ==
  SelectSeq(sel, LAMBDA f : f.type = "application/pdf" /\ f.size <= 10 * 1024 * 1024)

\* C4: for every selection, a handleFiles call makes the collection the old
\* collection followed by one pending entry with progress 0 per valid file of
\* the selection, in the order of the selection.
C4_AddFilesAppendsValid ==
  \A sel \in Selectable :
    LET valid == ValidOf(sel)
        after == AfterHandleFiles(sel)
    IN
      /\ Len(after) = Len(uploadFiles) + Len(valid)
      /\ SubSeq(after, 1, Len(uploadFiles)) = uploadFiles
      /\ \A k \in 1..Len(valid) :
           /\ after[Len(uploadFiles) + k].file = valid[k]
           /\ after[Len(uploadFiles) + k].status = "pending"
           /\ after[Len(uploadFiles) + k].progress = 0

\* C5: for every selection with a valid file the thumbnail of which cannot be
\* generated, a handleFiles call still adds an entry for every valid file of
\* the selection, and the entry of a file without thumbnail has no preview.
C5_ThumbnailFailureRecovered ==
  \A sel \in Selectable :
    (\E k \in DOMAIN ValidOf(sel) : generatePdfThumbnail(ValidOf(sel)[k]).threw) =>
      LET valid == ValidOf(sel)
          after == AfterHandleFiles(sel)
          added == SubSeq(after, Len(uploadFiles) + 1, Len(after))
      IN
        /\ Len(added) = Len(valid)
        /\ \A k \in DOMAIN valid :
             /\ added[k].file = valid[k]
             /\ generatePdfThumbnail(valid[k]).threw => added[k].preview = NoPreview

\* C6 as stated: every entry in error has an action that starts its upload again.
C6_RetryOffered ==
  \A i \in DOMAIN uploadFiles :
    uploadFiles[i].status = "error" => ENABLED uploadOne(uploadFiles[i].id)

\* C6 as amended: an entry in error is offered no upload action, stays as it
\* is for as long as it is in the collection, and no step issues a transfer
\* request for it.
C6_ErrorIsTerminal ==
  /\ [](\A i \in DOMAIN uploadFiles :
          uploadFiles[i].status = "error" => ~ ENABLED uploadOne(uploadFiles[i].id))
  /\ [][\A id \in Ids(uploadFiles) :
          StatusOf(uploadFiles, id) = "error" =>
            /\ xfer'[id].n = xfer[id].n
            /\ id \in Ids(uploadFiles') =>
                 EntryOf(uploadFiles', id) = EntryOf(uploadFiles, id)]_vars

C6_Witness ==
  \E i, j \in DOMAIN uploadFiles :
    /\ uploadFiles[i].status = "error" /\ xfer[uploadFiles[i].id].st = "rejected"
    /\ uploadFiles[j].status = "pending"

\* The entries a step sets to uploading, and those it takes out of uploading.
Started == { id \in Kept : StatusOf(uploadFiles', id) = "uploading"
                            /\ StatusOf(uploadFiles, id) # "uploading" }

Finished == { id \in Kept : StatusOf(uploadFiles, id) = "uploading"
                             /\ StatusOf(uploadFiles', id) # "uploading" }

PendingIds == { uploadFiles[i].id : i \in { j \in DOMAIN uploadFiles : uploadFiles[j].status = "pending" } }

\* C20: a step starts uploads for pending entries only, with one request
\* each (backend variant), all in flight when the step ends; an uploadAll step
\* starts exactly the entries that are pending; a step that starts uploads
\* leaves every other entry and its request as they are; and a step in which
\* an upload ends changes no other entry and no other request.
C20_UploadAllConcurrent ==
  [][/\ \A id \in Started :
          /\ StatusOf(uploadFiles, id) = "pending"
          /\ variant = "real" => xfer'[id] = [n |-> xfer[id].n + 1, st |-> "sent"]
     /\ (uploadAll \/ simUploadAll) => Started = PendingIds
     /\ Started # {} =>
          \A id \in Ids(uploadFiles) \ Started :
            /\ id \in Ids(uploadFiles')
            /\ EntryOf(uploadFiles', id) = EntryOf(uploadFiles, id)
            /\ xfer'[id] = xfer[id]
     /\ \A id \in Finished :
          \A other \in Ids(uploadFiles) \ {id} :
            /\ other \in Ids(uploadFiles')
            /\ EntryOf(uploadFiles', other) = EntryOf(uploadFiles, other)
            /\ xfer'[other] = xfer[other]]_vars

\* Two uploads were in flight together and the one of the second entry has
\* ended first.
C20_Witness ==
  /\ variant = "real"
  /\ Len(uploadFiles) >= 2
  /\ uploadFiles[1].status = "uploading" /\ xfer[uploadFiles[1].id] = [n |-> 1, st |-> "sent"]
  /\ uploadFiles[2].status = "completed" /\ xfer[uploadFiles[2].id] = [n |-> 1, st |-> "ok"]

Statuses == {"pending", "uploading", "completed", "error"}

\* C21: every entry, whatever its status, can be removed, and a step that
\* takes an entry out of the collection takes out that one entry only and
\* leaves the others as they were, in the same order.
C21_RemoveEntry ==
  /\ [](\A i \in DOMAIN uploadFiles : ENABLED removeFile(uploadFiles[i].id))
  /\ [][\A id \in Ids(uploadFiles) \ Ids(uploadFiles') :
          /\ removeFile(id)
          /\ uploadFiles' = SelectSeq(uploadFiles, LAMBDA f : f.id # id)
          /\ Len(uploadFiles') = Len(uploadFiles) - 1]_vars

\* The first entry was removed while its upload was in flight, and the entry
\* after it is still there, in error.
C21_Witness ==
  /\ variant = "real"
  /\ nextId > 1 /\ 1 \notin Ids(uploadFiles) /\ xfer[1].st = "sent"
  /\ Len(uploadFiles) >= 1
  /\ uploadFiles[1].status = "error"

\* C22: a re-scan request exists only for an entry whose upload request got a
\* success response, and the entry of such an upload is completed with
\* progress 100 whether its re-scan succeeded, failed or has no response.
C22_RescanAfterSuccess ==
  /\ \A id \in DOMAIN scans : scans[id] # "none" => xfer[id].st = "ok"
  /\ \A i \in DOMAIN uploadFiles :
       xfer[uploadFiles[i].id].st = "ok" =>
         /\ scans[uploadFiles[i].id] \in {"sent"} \cup ScanOutcomes
         /\ uploadFiles[i].status = "completed"
         /\ uploadFiles[i].progress = 100

\* Two completed entries: the re-scan of one failed, the re-scan of the other
\* has no response.
C22_Witness ==
  \E i, j \in DOMAIN uploadFiles :
    /\ scans[uploadFiles[i].id] \in {"notok", "rejected"}
    /\ scans[uploadFiles[j].id] = "sent"
    /\ uploadFiles[i].status = "completed" /\ uploadFiles[i].progress = 100
    /\ uploadFiles[j].status = "completed" /\ uploadFiles[j].progress = 100

\* C23: no step changes the id, the file or the preview of an entry that
\* stays in the collection.
C23_PreviewSetOnce ==
  [][\A id \in Kept :
       /\ EntryOf(uploadFiles', id).preview = EntryOf(uploadFiles, id).preview
       /\ EntryOf(uploadFiles', id).file = EntryOf(uploadFiles, id).file
       /\ Cardinality({ i \in DOMAIN uploadFiles' : uploadFiles'[i].id = id }) = 1]_vars

\* Two entries with their previews, one completed and one in error, after
\* uploads, ramp ticks and a further handleFiles.
C23_Witness ==
  /\ variant = "real"
  /\ Len(uploadFiles) >= 2
  /\ uploadFiles[1].status = "completed" /\ uploadFiles[1].preview # NoPreview
  /\ uploadFiles[2].status = "error" /\ uploadFiles[2].preview # NoPreview
  /\ uploadFiles[2].progress > 5

\* C24: every entry has one of the four statuses and a progress from 0 to 100.
C24_StatusAndProgressRange ==
  \A i \in DOMAIN uploadFiles :
    /\ uploadFiles[i].status \in Statuses
    /\ uploadFiles[i].progress \in 0..100

\* The ramp at its limit next to a completed entry.
C24_Witness ==
  \E i, j \in DOMAIN uploadFiles :
    /\ uploadFiles[i].progress = 85 /\ uploadFiles[i].status = "uploading"
    /\ uploadFiles[j].progress = 100 /\ uploadFiles[j].status = "completed"

\* The ids of the entries created so far.
Created == 1..(nextId - 1)

\* C27: an entry that has left the collection never returns, and a step in
\* which the upload of such an entry ends, or its timer fires, leaves the
\* collection as it is.
C27_RemovedStaysRemoved ==
  [][\A id \in Created \ Ids(uploadFiles) :
       /\ id \notin Ids(uploadFiles')
       /\ (xfer'[id] # xfer[id] \/ RampTick(id) \/ \E r \in SimSteps : SimTick(id, r)) =>
            uploadFiles' = uploadFiles]_vars

\* The upload of a removed entry has ended, with success, next to an entry
\* that is still there.
C27_Witness ==
  \E id \in Created \ Ids(uploadFiles) :
    /\ xfer[id].st = "ok"
    /\ uploadFiles # <<>>

\* C30: the ramp timer of an upload that has ended (success response,
\* non-success response, rejected request) is not active any more.
C30_RampCancelled ==
  \A id \in DOMAIN xfer :
    xfer[id].st \in UploadOutcomes => id \notin ramp

(***************************************************************************)
(* Search page (backend-connected).                                        *)
(***************************************************************************)
\* A value that may be null or undefined: None, or Some(v).
None == <<>>
Some(v) == <<v>>

\* Items of the backend; strings that are searched or compared are sequences
\* of characters.
ItemA == [id |-> "1", pdf_filename |-> <<"a", ".", "p", "d", "f">>, page_number |-> 1,
          keywords |-> Some(<< <<"A", "n", "i", "m", "a", "l">> >>)]
ItemB == [id |-> "2", pdf_filename |-> <<"b", ".", "p", "d", "f">>, page_number |-> 1,
          keywords |-> Some(<< <<"u", "r", "b", "a", "n">> >>)]

\* The result lists a backend response can carry.
ResultLists == { <<>>, <<ItemB>>, <<ItemB, ItemA>> }

\* The texts a user can type, as sequences of characters.
Queries == { <<>>, <<" ">>, <<"x">>, <<"y">> }

Whitespace == {" "}

\* String.prototype.trim
RECURSIVE TrimLeft(_)
TrimLeft(q) == IF q # <<>> /\ Head(q) \in Whitespace THEN TrimLeft(Tail(q)) ELSE q

RECURSIVE TrimRight(_)
TrimRight(q) ==
  IF q # <<>> /\ q[Len(q)] \in Whitespace THEN TrimRight(SubSeq(q, 1, Len(q) - 1)) ELSE q

Trim(q) == TrimRight(TrimLeft(q))

\* How a fetch of the search page can end: a body with ok true, a body with
\* ok false, a body r.json() cannot parse, a rejected request.
SearchOutcomes == {"ok", "notok", "unparsable", "rejected"}

NoSearch == [st |-> "none", q |-> <<>>]

InFlight == { n \in DOMAIN searches : searches[n].st = "sent" }

\* onChange of the search input
setSearchQuery(q) ==
  /\ q # searchQuery
  /\ searchQuery' = q
  /\ UNCHANGED <<items, loading, searches, nextReq, lastResp, listing>>
  /\ UNCHANGED <<uploadVars, viewVars, routeVars, libVars, lifeVars>>

\* The Search button is disabled while loading; Enter in the input is not.
SearchOffered(via) == via = "enter" \/ ~loading

\* The request runSearch sends for the text q, or "none" when it sends none.
SearchRequest(q) == [st |-> "sent", q |-> q]

\* runSearch up to its await of fetch
runSearch(via) ==
  /\ page = "real"
  /\ SearchOffered(via)
  /\ nextReq <= MaxSearches
  /\ loading' = TRUE
  /\ searches' = [searches EXCEPT ![nextReq] = SearchRequest(searchQuery)]
  /\ nextReq' = nextReq + 1
  /\ UNCHANGED <<searchQuery, items, lastResp, listing>>
  /\ UNCHANGED <<uploadVars, viewVars, routeVars, libVars, lifeVars>>

\* Mutant: the response is merged into the result set.
SearchResult_Merges(prev, o, res) == IF o = "ok" THEN prev \o res ELSE prev

\* Mutant: a failed call empties the result set.
SearchResult_ClearsOnFailure(prev, o, res) == IF o = "ok" THEN res ELSE <<>>

\* The result set after a response of outcome o carrying the list res:
\* if (j.ok) setItems(j.results), and nothing in the catch block.
SearchResult(prev, o, res) == IF o = "ok" THEN res ELSE prev

\* The loading flag after runSearch's finally block.
LoadingAfter(n) == FALSE

\* runSearch from its await of fetch to its end
SearchSettle(n, o, res) ==
  /\ page = "real"
  /\ n \in InFlight
  /\ o = "ok" \/ res = <<>>
  /\ searches' = [searches EXCEPT ![n] = [st |-> o, q |-> <<>>]]
  /\ items' = SearchResult(items, o, res)
  /\ loading' = LoadingAfter(n)
  /\ lastResp' = [n |-> n, results |-> res]
  /\ UNCHANGED <<searchQuery, nextReq, listing>>
  /\ UNCHANGED <<uploadVars, viewVars, routeVars, libVars, lifeVars>>

\* Mutant: the mount effect stores the list without looking at j.ok.
ListingResult_NoOkCheck(prev, o, res) == res

\* The result set after the listing response of outcome o carrying the list
\* res: if (j.ok) setItems(j.items), and nothing in the catch block.
ListingResult(prev, o, res) == IF o = "ok" THEN res ELSE prev

\* The mount effect from its await of fetch to its end
ListingSettle(o, res) ==
  /\ page = "real"
  /\ listing.st = "sent"
  /\ o = "ok" \/ res = <<>>
  /\ listing' = [st |-> o, items |-> res]
  /\ items' = ListingResult(items, o, res)
  /\ UNCHANGED <<searchQuery, loading, searches, nextReq, lastResp>>
  /\ UNCHANGED <<uploadVars, viewVars, routeVars, libVars, lifeVars>>

(***************************************************************************)
(* Properties of the search page.                                          *)
(***************************************************************************)
SearchFailures == {"notok", "unparsable", "rejected"}

\* C7: a runSearch call with an empty or whitespace-only text empties the
\* result set and sends no request.
C7_BlankQueryClears ==
  [][\A via \in {"button", "enter"} :
       (runSearch(via) /\ Trim(searchQuery) = <<>>) =>
         (items' = <<>> /\ searches' = searches)]_vars

\* C8: whenever a search call gets a successful response, the result set
\* becomes exactly the list of that response, whichever call it answers and
\* whatever the result set held.
C8_LastResponseWins ==
  [][\A n \in DOMAIN searches :
       (searches[n].st = "sent" /\ searches'[n].st = "ok") =>
         (lastResp'.n = n /\ items' = lastResp'.results)]_vars

\* Both calls were in flight together, the second was answered first, and the
\* result set is the answer to the first.
C8_Witness ==
  /\ MaxSearches >= 2
  /\ searches[1].st = "ok" /\ searches[2].st = "ok"
  /\ lastResp.n = 1
  /\ lastResp.results # <<>>
  /\ items = lastResp.results

\* C9: the loading flag is true exactly when a search request is in flight.
C9_LoadingIffInFlight == loading <=> InFlight # {}

\* C10 as stated: when a search call fails, the result set becomes empty and
\* the loading flag false.
C10_FailureClears ==
  [][\A n \in DOMAIN searches :
       (searches[n].st = "sent" /\ searches'[n].st \in SearchFailures) =>
         (items' = <<>> /\ loading' = FALSE)]_vars

\* C10 as amended: when a search call fails, the result set stays what it was
\* and the loading flag becomes false.
C10_FailureKeepsResults ==
  [][\A n \in DOMAIN searches :
       (searches[n].st = "sent" /\ searches'[n].st \in SearchFailures) =>
         (items' = items /\ loading' = FALSE)]_vars

C10_Witness ==
  /\ lastResp.n # 0
  /\ searches[lastResp.n].st \in SearchFailures
  /\ items # <<>>
  /\ ~ loading

Applied == { n \in DOMAIN searches : searches[n].st = "ok" }

\* C28: once a search response has been applied to the result set, the result
\* set changes only when another search response is applied; the listing
\* response arriving later does not overwrite it.
C28_SearchResultStays ==
  [][(Applied # {} /\ items' # items) =>
       \E n \in DOMAIN searches :
         searches[n].st = "sent" /\ searches'[n].st = "ok"]_vars

(***************************************************************************)
(* Search page: the derived view (filtered), on the backend-connected page *)
(* and on the page over the static mockItems.                              *)
(***************************************************************************)
Range(seq) == { seq[i] : i \in DOMAIN seq }

\* Strings are sequences of characters.
ToLower ==
  ("A" :> "a") @@ ("B" :> "b") @@ ("C" :> "c") @@ ("D" :> "d") @@ ("E" :>
  "e") @@ ("F" :> "f") @@ ("G" :> "g") @@ ("H" :> "h") @@ ("I" :> "i") @@
  ("J" :> "j") @@ ("K" :> "k") @@ ("L" :> "l") @@ ("M" :> "m") @@ ("N" :>
  "n") @@ ("O" :> "o") @@ ("P" :> "p") @@ ("Q" :> "q") @@ ("R" :> "r") @@
  ("S" :> "s") @@ ("T" :> "t") @@ ("U" :> "u") @@ ("V" :> "v") @@ ("W" :>
  "w") @@ ("X" :> "x") @@ ("Y" :> "y") @@ ("Z" :> "z")

\* String.prototype.toLowerCase
Lower(c) == IF c \in DOMAIN ToLower THEN ToLower[c] ELSE c

toLowerCase(s) == [i \in DOMAIN s |-> Lower(s[i])]

\* String.prototype.includes
includes(s, q) == \E i \in 0..(Len(s) - Len(q)) : SubSeq(s, i + 1, i + Len(q)) = q

\* The order of the characters in the comparison of localeCompare: blank,
\* punctuation, digits, letters; a lower-case letter before its upper-case one.
CollationOrder ==
  <<" ", "-", ".", "(", ")", "0", "1", "2", "3", "4", "5", "6", "7", "8", "9", "a", "b", "c", "d", "e", "f", "g", "h", "i", "j", "k", "l", "m", "n", "o", "p", "q", "r", "s", "t", "u", "v", "w", "x", "y", "z">>

RankOf ==
  [c \in Range(CollationOrder) \cup DOMAIN ToLower |->
     CHOOSE i \in DOMAIN CollationOrder : CollationOrder[i] = Lower(c)]

Rank(c) == RankOf[c]

Sign(n) == IF n < 0 THEN -1 ELSE IF n > 0 THEN 1 ELSE 0

RECURSIVE PrimaryCompare(_, _)
PrimaryCompare(a, b) ==
  IF a = <<>> /\ b = <<>> THEN 0
  ELSE IF a = <<>> THEN -1
  ELSE IF b = <<>> THEN 1
  ELSE IF Rank(Head(a)) # Rank(Head(b)) THEN Sign(Rank(Head(a)) - Rank(Head(b)))
  ELSE PrimaryCompare(Tail(a), Tail(b))

\* Strings equal up to case: the first difference decides, lower case first.
RECURSIVE CaseCompare(_, _)
CaseCompare(a, b) ==
  IF a = <<>> THEN 0
  ELSE IF Head(a) = Head(b) THEN CaseCompare(Tail(a), Tail(b))
  ELSE IF Head(a) = Lower(Head(a)) THEN -1 ELSE 1

\* String.prototype.localeCompare
localeCompare(a, b) ==
  IF PrimaryCompare(a, b) # 0 THEN PrimaryCompare(a, b) ELSE CaseCompare(a, b)

DigitValue ==
  ("0" :> 0) @@ ("1" :> 1) @@ ("2" :> 2) @@ ("3" :> 3) @@ ("4" :> 4) @@ ("5" :> 5) @@ ("6" :> 6) @@ ("7" :> 7) @@ ("8" :> 8) @@ ("9" :> 9)

\* The digits at the head of s, as a number.
RECURSIVE ParseDigits(_, _)
ParseDigits(s, acc) ==
  IF s # <<>> /\ Head(s) \in DOMAIN DigitValue
  THEN ParseDigits(Tail(s), 10 * acc + DigitValue[Head(s)])
  ELSE [value |-> acc, rest |-> s]

\* parseFloat, in tenths: the integer part, and the first digit after a point;
\* the text after the number ("2.1 MB") is ignored.
parseFloat(s) ==
  LET int == ParseDigits(s, 0) IN
    IF int.rest # <<>> /\ Head(int.rest) = "."
         /\ Tail(int.rest) # <<>> /\ Head(Tail(int.rest)) \in DOMAIN DigitValue
    THEN 10 * int.value + DigitValue[Head(Tail(int.rest))]
    ELSE 10 * int.value

\* The comparators of the sorts: by pdf_filename on the backend-connected
\* page; by name, by size, or (any other key) by date, newest first, on the
\* mock page.
Compare(by, a, b) ==
  CASE by = "pdf_filename" -> localeCompare(a.pdf_filename, b.pdf_filename)
    [] by = "name" -> localeCompare(a.name, b.name)
    [] by = "size" -> Sign(parseFloat(a.size) - parseFloat(b.size))
    [] OTHER -> localeCompare(b.date, a.date)

\* Mutant: an element is put before the elements it is equal to.
RECURSIVE InsertSorted_BeforeEquals(_, _, _)
InsertSorted_BeforeEquals(by, sorted, x) ==
  IF sorted = <<>> THEN <<x>>
  ELSE IF Compare(by, Head(sorted), x) < 0
       THEN <<Head(sorted)>> \o InsertSorted_BeforeEquals(by, Tail(sorted), x)
       ELSE <<x>> \o sorted

\* Array.prototype.sort is stable: an element goes after the elements that
\* are not greater.
RECURSIVE InsertSorted(_, _, _)
InsertSorted(by, sorted, x) ==
  IF sorted = <<>> THEN <<x>>
  ELSE IF Compare(by, Head(sorted), x) <= 0
       THEN <<Head(sorted)>> \o InsertSorted(by, Tail(sorted), x)
       ELSE <<x>> \o sorted

RECURSIVE SortFrom(_, _, _, _)
SortFrom(by, seq, i, acc) ==
  IF i > Len(seq) THEN acc ELSE SortFrom(by, seq, i + 1, InsertSorted(by, acc, seq[i]))

\* Array.prototype.sort with the comparator named by
Sort(by, seq) == SortFrom(by, seq, 1, <<>>)

\* a ?? b
Nullish(a, b) == IF a = None THEN b ELSE a[1]

\* Array.from(new Set(seq)): the first occurrence of each element, in order.
RECURSIVE Dedupe(_, _)
Dedupe(seq, acc) ==
  IF seq = <<>> THEN acc
  ELSE Dedupe(Tail(seq), IF Head(seq) \in Range(acc) THEN acc ELSE Append(acc, Head(seq)))

\* Array.prototype.flat over the lists a flatMap callback returned
RECURSIVE Flatten(_)
Flatten(seqs) == IF seqs = <<>> THEN <<>> ELSE Head(seqs) \o Flatten(Tail(seqs))

mockItems ==
  << [id |-> 1, name |-> <<"d", "o", "r", "i", "t", "o", "s", " ", "(", "1", ")", ".", "p", "d", "f">>,
      size |-> <<"2", ".", "1", " ", "M", "B">>, date |-> <<"2", "0", "2", "5", "-", "0", "8", "-", "2", "0">>, type |-> "PDF",
      tags |-> << <<"c", "h", "i", "p", "s">>, <<"s", "n", "a", "c", "k">>, <<"p", "a", "c", "k", "a", "g", "i", "n", "g">> >>],
     [id |-> 2, name |-> <<"f", "l", "o", "w", "e", "r", ".", "p", "d", "f">>,
      size |-> <<"1", ".", "7", " ", "M", "B">>, date |-> <<"2", "0", "2", "5", "-", "0", "8", "-", "1", "9">>, type |-> "PDF",
      tags |-> << <<"f", "l", "o", "w", "e", "r">>, <<"n", "a", "t", "u", "r", "e">> >>],
     [id |-> 3, name |-> <<"k", "n", "o", "r", "r", ".", "p", "d", "f">>,
      size |-> <<"2", ".", "3", " ", "M", "B">>, date |-> <<"2", "0", "2", "5", "-", "0", "8", "-", "1", "8">>, type |-> "PDF",
      tags |-> << <<"k", "n", "o", "r", "r">>, <<"p", "a", "c", "k", "a", "g", "i", "n", "g">>, <<"f", "o", "o", "d">> >>],
     [id |-> 4, name |-> <<"p", "a", "n", "c", "a", "k", "e", ".", "p", "d", "f">>,
      size |-> <<"1", ".", "9", " ", "M", "B">>, date |-> <<"2", "0", "2", "5", "-", "0", "8", "-", "1", "8">>, type |-> "PDF",
      tags |-> << <<"p", "a", "n", "c", "a", "k", "e">>, <<"m", "e", "n", "u">> >>],
     [id |-> 5, name |-> <<"p", "a", "n", "d", "a", ".", "p", "d", "f">>,
      size |-> <<"2", ".", "0", " ", "M", "B">>, date |-> <<"2", "0", "2", "5", "-", "0", "8", "-", "1", "7">>, type |-> "PDF",
      tags |-> << <<"p", "a", "n", "d", "a">>, <<"a", "n", "i", "m", "a", "l">> >>],
     [id |-> 6, name |-> <<"s", "i", "g", "n", ".", "p", "d", "f">>,
      size |-> <<"1", ".", "2", " ", "M", "B">>, date |-> <<"2", "0", "2", "5", "-", "0", "8", "-", "1", "7">>, type |-> "PDF",
      tags |-> << <<"s", "i", "g", "n">>, <<"p", "o", "s", "t", "e", "r">> >>] >>

\* The lists the backend can return to the page whose view is observed: two
\* pages of one document after each other, a keyword in upper case, a page
\* without keywords.
ItemC == [id |-> "3", pdf_filename |-> <<"b", ".", "p", "d", "f">>, page_number |-> 2, keywords |-> None]

ViewLists == { <<>>, <<ItemA>>, <<ItemB, ItemC, ItemA>> }

\* The texts typed on the page whose view is observed.
ViewQueries == { <<>>, <<"P", "A", "N">>, <<"f", "o", "o", "d">> }

\* Mutant: every selected tag has to be a tag of the document.
SomeTagMatches_Every(docTags, tags) ==
  \A i \in DOMAIN tags : \E j \in DOMAIN docTags : docTags[j] = toLowerCase(tags[i])

\* selectedTags.some((t) => tags.includes(t.toLowerCase()))
SomeTagMatches(docTags, tags) ==
  \E i \in DOMAIN tags : \E j \in DOMAIN docTags : docTags[j] = toLowerCase(tags[i])

\* Mutant: the sort by name reverses the list.
SortByName_Reverses(out) == [i \in DOMAIN out |-> out[Len(out) + 1 - i]]

\* out.sort((a, b) => a.pdf_filename.localeCompare(b.pdf_filename))
SortByName(out) == Sort("pdf_filename", out)

\* filtered of the backend-connected page
filtered(its, types, tags, key) ==
  LET out1 == IF Len(types) > 0 THEN SelectSeq(its, LAMBDA doc : TRUE) ELSE its
      out2 == IF Len(tags) > 0
              THEN SelectSeq(out1, LAMBDA doc :
                     SomeTagMatches([j \in DOMAIN Nullish(doc.keywords, <<>>) |->
                                       toLowerCase(Nullish(doc.keywords, <<>>)[j])], tags))
              ELSE out1
  IN IF key = "name" THEN SortByName(out2) ELSE out2

\* items of the mock page: mockItems sorted by the key
mockSorted(base, key) == Sort(IF key \in {"name", "size"} THEN key ELSE "date", base)

\* The memo of the mock page: items for each value of its dependency sortBy
mockItemsSorted == [key \in {"date", "name", "size"} |-> mockSorted(mockItems, key)]

\* The filter of the mock page over its sorted items
mockFilter(sorted, q, types, tags) ==
  SelectSeq(sorted, LAMBDA doc :
    LET lq == toLowerCase(q)
        matchesSearch == \/ includes(toLowerCase(doc.name), lq)
                         \/ \E j \in DOMAIN doc.tags : includes(toLowerCase(doc.tags[j]), lq)
        matchesType == Len(types) = 0 \/ doc.type \in Range(types)
        matchesTags == Len(tags) = 0 \/ \E i \in DOMAIN tags : tags[i] \in Range(doc.tags)
    IN matchesSearch /\ matchesType /\ matchesTags)

\* filtered of the mock page, over the list base in the place of mockItems
mockFiltered(base, q, types, tags, key) == mockFilter(mockSorted(base, key), q, types, tags)

\* The list the page displays.
Displayed ==
  IF page = "real" THEN filtered(items, selectedTypes, selectedTags, sortBy)
  ELSE mockFilter(mockItemsSorted[sortBy], searchQuery, selectedTypes, selectedTags)

\* The tags that have a checkbox.
allTags ==
  IF page = "real"
  THEN Dedupe(Flatten([i \in DOMAIN items |->
                 [j \in DOMAIN Nullish(items[i].keywords, <<>>) |->
                    toLowerCase(Nullish(items[i].keywords, <<>>)[j])]]), <<>>)
  ELSE Dedupe(Flatten([i \in DOMAIN mockItems |-> mockItems[i].tags]), <<>>)

\* The type labels that have a checkbox.
TypeLabels == {"PDF"}

\* The keys the Select of the page offers.
SortKeys == IF page = "real" THEN {"date", "name"} ELSE {"date", "name", "size"}

\* Mutant: the memo sorts the result set itself, not a copy.
ItemsAfterMemo_InPlace(its, key) == IF key = "name" THEN SortByName(its) ELSE its

\* The result set after the memo has run: it works on the copy [...items].
ItemsAfterMemo(its, key) == its

\* What a change of the filters or of the sort key leaves of the page's state.
ViewFrame(key) ==
  /\ items' = ItemsAfterMemo(items, key)
  /\ UNCHANGED <<searchQuery, loading, searches, nextReq, lastResp, listing, page>>
  /\ UNCHANGED <<uploadVars, routeVars, libVars, lifeVars>>

\* onCheckedChange of a File Type checkbox
toggleType(type) ==
  /\ type \in TypeLabels
  /\ selectedTypes' = IF type \in Range(selectedTypes)
                      THEN SelectSeq(selectedTypes, LAMBDA t : t # type)
                      ELSE Append(selectedTypes, type)
  /\ UNCHANGED <<selectedTags, sortBy>>
  /\ ViewFrame(sortBy)

\* onCheckedChange of a Tags checkbox
toggleTag(tag) ==
  /\ tag \in Range(allTags)
  /\ tag \in Range(selectedTags) \/ Len(selectedTags) < MaxTagSel
  /\ selectedTags' = IF tag \in Range(selectedTags)
                     THEN SelectSeq(selectedTags, LAMBDA t : t # tag)
                     ELSE Append(selectedTags, tag)
  /\ UNCHANGED <<selectedTypes, sortBy>>
  /\ ViewFrame(sortBy)

\* onValueChange of the sort Select
setSortBy(key) ==
  /\ key \in SortKeys
  /\ key # sortBy
  /\ sortBy' = key
  /\ UNCHANGED <<selectedTypes, selectedTags>>
  /\ ViewFrame(key)

(***************************************************************************)
(* Properties of the derived view.                                         *)
(***************************************************************************)
\* The result set the view is derived from.
Results == IF page = "real" THEN items ELSE mockItems

NameOf(doc) == IF page = "real" THEN doc.pdf_filename ELSE doc.name

TagsOf(doc) == IF page = "real" THEN Nullish(doc.keywords, <<>>) ELSE doc.tags

\* The filename or a tag contains the text query, whatever the case.
MatchesText(doc) ==
  \/ searchQuery = <<>>
  \/ includes(toLowerCase(NameOf(doc)), toLowerCase(searchQuery))
  \/ \E j \in DOMAIN TagsOf(doc) :
       includes(toLowerCase(TagsOf(doc)[j]), toLowerCase(searchQuery))

\* Every result is a PDF.
MatchesType(doc) == selectedTypes = <<>> \/ "PDF" \in Range(selectedTypes)

\* A tag of the result is a selected tag.
MatchesTags(doc) ==
  selectedTags = <<>> \/ \E j \in DOMAIN TagsOf(doc) : TagsOf(doc)[j] \in Range(selectedTags)

\* A tag of the result is a selected tag, whatever the case.
MatchesTagsAnyCase(doc) ==
  \/ selectedTags = <<>>
  \/ \E j \in DOMAIN TagsOf(doc) : \E i \in DOMAIN selectedTags :
       toLowerCase(TagsOf(doc)[j]) = toLowerCase(selectedTags[i])

\* C15: every displayed result matches the text query (filename or a tag
\* contains it, whatever the case; every result matches the empty query), the
\* type filter and the tag filter.
C15_TextQueryFilters ==
  LET shown == Displayed IN
    \A i \in DOMAIN shown :
      /\ MatchesText(shown[i])
      /\ MatchesType(shown[i])
      /\ MatchesTagsAnyCase(shown[i])

\* C16 as stated: with tags selected, every displayed result has a tag that
\* is in the selected set.
C16_TagInSelectedSet ==
  LET shown == Displayed IN
    \A i \in DOMAIN shown : MatchesTags(shown[i])

\* C16 as amended: a result is displayed exactly when it passes the other
\* filters of its page and, if tags are selected, one of its tags equals a
\* selected tag up to case; so no selection hides nothing by tag.
C16_TagFilterAnyCase ==
  LET shown == Range(Displayed) IN
    \A k \in DOMAIN Results :
      Results[k] \in shown <=>
        /\ page = "mock" => MatchesText(Results[k])
        /\ MatchesType(Results[k])
        /\ MatchesTagsAnyCase(Results[k])

\* The item with keyword "Animal" is shown under the tag filter {animal}, the
\* item tagged "urban" is hidden.
C16_Witness ==
  /\ page = "real"
  /\ selectedTags = << <<"a", "n", "i", "m", "a", "l">> >>
  /\ ItemA \in Range(Displayed)
  /\ ItemB \in Range(items) \ Range(Displayed)

AllSortKeys == {"date", "name", "size"}

\* C17: for the result set, the filters and the query of every reachable
\* state and for every sort key, the view of the view is the view.
C17_ViewIdempotent ==
  \A key \in AllSortKeys :
    IF page = "real"
    THEN LET out == filtered(items, selectedTypes, selectedTags, key) IN
           filtered(out, selectedTypes, selectedTags, key) = out
    ELSE LET out == mockFiltered(mockItems, searchQuery, selectedTypes, selectedTags, key) IN
           mockFiltered(out, searchQuery, selectedTypes, selectedTags, key) = out

\* A view that drops results and reorders the others.
C17_Witness ==
  /\ sortBy = "name"
  /\ selectedTags # <<>>
  /\ Len(Displayed) >= 2
  /\ Len(Displayed) < Len(Results)
  /\ page = "real" => Displayed[1] # SelectSeq(items, LAMBDA d : d \in Range(Displayed))[1]

\* The results that pass the filters of the page, in the order of the result set.
FilteredResults ==
  SelectSeq(Results, LAMBDA doc :
    /\ page = "mock" => MatchesText(doc)
    /\ MatchesType(doc)
    /\ MatchesTagsAnyCase(doc))

Occurrences(seq, x) == Cardinality({ i \in DOMAIN seq : seq[i] = x })

Position(seq, x) == CHOOSE i \in DOMAIN seq : seq[i] = x

\* C18: with sort key "name" the displayed list is a permutation of the
\* filtered results, ascending by filename, and results with equal filenames
\* are in the order they have in the result set.
C18_SortByNameStable ==
  sortBy = "name" =>
    LET shown == Displayed
        passing == FilteredResults
    IN
      /\ Len(shown) = Len(passing)
      /\ \A x \in Range(passing) \cup Range(shown) :
           Occurrences(shown, x) = Occurrences(passing, x)
      /\ \A i, j \in DOMAIN shown :
           i < j =>
             /\ localeCompare(NameOf(shown[i]), NameOf(shown[j])) <= 0
             /\ localeCompare(NameOf(shown[i]), NameOf(shown[j])) = 0 =>
                  Position(Results, shown[i]) < Position(Results, shown[j])

\* The backend order b.pdf (page 1), b.pdf (page 2), a.pdf is displayed as
\* a.pdf, b.pdf (page 1), b.pdf (page 2).
C18_Witness ==
  /\ page = "real"
  /\ sortBy = "name"
  /\ items = <<ItemB, ItemC, ItemA>>
  /\ Displayed = <<ItemA, ItemB, ItemC>>

\* C19: a step that changes the type filter, the tag filter or the sort key
\* leaves the result set, the query text, the loading flag and every request
\* (listing, searches, uploads, re-scans, proxy calls) as they are; and on the
\* backend-connected page the list displayed under the sort key "date" or
\* "size" is the result set, filtered, in backend order.
C19_ViewChangeFrame ==
  /\ [](page = "real" =>
          \A key \in {"date", "size"} :
            filtered(items, selectedTypes, selectedTags, key)
              = SelectSeq(items, MatchesTagsAnyCase))
  /\ [][(selectedTypes' # selectedTypes \/ selectedTags' # selectedTags \/ sortBy' # sortBy) =>
          /\ items' = items
          /\ searchQuery' = searchQuery
          /\ loading' = loading
          /\ <<searches, nextReq, lastResp, listing>>' = <<searches, nextReq, lastResp, listing>>
          /\ <<xfer, scans, calls>>' = <<xfer, scans, calls>>]_vars

\* Back on the sort key "date" with both filters set, while a search is in
\* flight: the list displayed is in backend order.
C19_Witness ==
  /\ page = "real"
  /\ sortBy = "date"
  /\ selectedTypes # <<>>
  /\ selectedTags # <<>>
  /\ loading /\ InFlight # {}
  /\ items = <<ItemB, ItemC, ItemA>>
  /\ Len(Displayed) >= 1

\* C29: every selected tag is one of the tags offered for the current result
\* set, so that it has a checkbox with which it can be cleared.
C29_SelectedTagsOffered ==
  LET offered == Range(allTags) IN
    \A i \in DOMAIN selectedTags : selectedTags[i] \in offered

(***************************************************************************)
(* Proxy route (app/api/search/route.ts).                                   *)
(***************************************************************************)
\* a || b for a string a that may be missing: "" is falsy.
StrOr(a, b) == IF a = None \/ a = Some(<<>>) THEN b ELSE a[1]

\* a || b for an array a that may be missing: [] is truthy.
ArrOr(a, b) == IF a = None THEN b ELSE a[1]

\* The JSON bodies of the incoming requests: query missing, empty, blank,
\* plain, padded.
RouteBodies ==
  { [has |-> FALSE, query |-> <<>>],
    [has |-> TRUE, query |-> <<>>],
    [has |-> TRUE, query |-> <<" ">>],
    [has |-> TRUE, query |-> <<"x">>],
    [has |-> TRUE, query |-> <<" ", "x">>] }

\* Mutant: the query is tested without trim().
IsBlank_NoTrim(body) == ~ body.has \/ body.query = <<>>

\* !query?.trim()
IsBlank(body) == ~ body.has \/ Trim(body.query) = <<>>

Row1 == [id |-> "1", pdf_filename |-> <<"a">>, page_number |-> 1, pdf_path |-> "/a",
         caption |-> Some(<<"c">>), keywords |-> Some(<<"k">>)]
Row2 == [id |-> "2", pdf_filename |-> <<"b">>, page_number |-> 2, pdf_path |-> "/b",
         caption |-> None, keywords |-> None]
Row3 == [id |-> "3", pdf_filename |-> <<"d">>, page_number |-> 1, pdf_path |-> "/d",
         caption |-> Some(<<>>), keywords |-> Some(<<>>)]

RowLists == { <<>>, <<Row1>>, <<Row2, Row1>>, <<Row3>> }

\* What the backend can answer to the proxy: the request is rejected, or it
\* resolves with an HTTP status and a body that r.json() parses or not.
BackendData ==
  { [parsed |-> FALSE, ok |-> FALSE, results |-> None],
    [parsed |-> TRUE, ok |-> FALSE, results |-> None],
    [parsed |-> TRUE, ok |-> TRUE, results |-> None] }
  \cup { [parsed |-> TRUE, ok |-> TRUE, results |-> Some(rows)] : rows \in RowLists }

BackendReplies ==
  { [kind |-> "rejected", status |-> 0, data |-> [parsed |-> FALSE, ok |-> FALSE, results |-> None]] }
  \cup { [kind |-> "resolved", status |-> 200, data |-> d] : d \in BackendData }
  \cup { [kind |-> "resolved", status |-> 500, data |-> d] :
           d \in { e \in BackendData : ~ e.ok } }

\* Mutant: the caption is always the file name.
MapRow_CaptionIsFilename(row) ==
  [id |-> row.id, caption |-> row.pdf_filename, keywords |-> ArrOr(row.keywords, <<>>),
   pdf_path |-> row.pdf_path, page_number |-> row.page_number]

\* The arrow function of the map over the backend rows.
MapRow(row) ==
  [id |-> row.id,
   caption |-> StrOr(row.caption, row.pdf_filename),
   keywords |-> ArrOr(row.keywords, <<>>),
   pdf_path |-> row.pdf_path,
   page_number |-> row.page_number]

\* The response to a request the handler of which threw.
RouteFailed == [status |-> 500, ok |-> FALSE, results |-> <<>>]

RouteOk(results) == [status |-> 200, ok |-> TRUE, results |-> results]

\* POST from the resolution of its fetch on: r.json() and the map of its rows.
RouteResponse(reply) ==
  IF reply.kind = "rejected" \/ ~ reply.data.parsed THEN RouteFailed
  ELSE LET rows == ArrOr(reply.data.results, <<>>) IN
         RouteOk([i \in DOMAIN rows |-> MapRow(rows[i])])

NoCall == [st |-> "none"]

\* POST up to its await of fetch, or to its return for a blank query.
RoutePost(c, body) ==
  /\ c \in DOMAIN calls
  /\ calls[c].st = "none"
  /\ \A d \in 1..(c - 1) : calls[d].st # "none"
  /\ calls' = [calls EXCEPT ![c] =
       IF IsBlank(body)
       THEN [st |-> "done", body |-> body, reqs |-> 0, resp |-> RouteOk(<<>>)]
       ELSE [st |-> "awaiting", body |-> body, reqs |-> 1]]
  /\ UNCHANGED <<uploadVars, searchVars, viewVars, libVars, lifeVars>>

\* POST from its await of fetch to its return or its exception.
RouteBackend(c, reply) ==
  /\ c \in DOMAIN calls
  /\ calls[c].st = "awaiting"
  /\ calls' = [calls EXCEPT ![c] =
       [st |-> "done", body |-> calls[c].body, reqs |-> calls[c].reqs,
        reply |-> reply, resp |-> RouteResponse(reply)]]
  /\ UNCHANGED <<uploadVars, searchVars, viewVars, libVars, lifeVars>>

(***************************************************************************)
(* Properties of the proxy route.                                          *)
(***************************************************************************)
Done == { c \in DOMAIN calls : calls[c].st = "done" }

\* The query of a body is missing, empty or only whitespace.
QueryBlank(body) ==
  ~ body.has \/ \A i \in DOMAIN body.query : body.query[i] \in Whitespace

\* C12: every request whose query is missing, empty or only whitespace is
\* answered {ok: true, results: []} without a request to the backend.
C12_BlankQueryShortCircuit ==
  \A c \in DOMAIN calls :
    (calls[c].st # "none" /\ QueryBlank(calls[c].body)) =>
      /\ calls[c].st = "done"
      /\ calls[c].reqs = 0
      /\ calls[c].resp = [status |-> 200, ok |-> TRUE, results |-> <<>>]

C12_Witness ==
  \E c, d \in Done :
    /\ ~ calls[c].body.has
    /\ calls[d].body.has /\ calls[d].body.query = <<" ">>
    /\ calls[c].reqs = 0 /\ calls[d].reqs = 0

\* The backend failed: the request was rejected, the status is not a success
\* status, or the body has ok false or no results list.
BackendFailed(reply) ==
  \/ reply.kind = "rejected"
  \/ reply.status \notin 200..299
  \/ ~ reply.data.parsed
  \/ ~ reply.data.ok
  \/ reply.data.results = None

\* C13: a request answered after a backend failure gets a failed response,
\* and no request makes the route send more than one backend request.
C13_BackendFailurePropagates ==
  \A c \in DOMAIN calls :
    /\ calls[c].st # "none" => calls[c].reqs <= 1
    /\ (calls[c].st = "done" /\ calls[c].reqs > 0 /\ BackendFailed(calls[c].reply)) =>
         ~ calls[c].resp.ok

\* C14 as stated: the answer to a non-blank query has one result per backend
\* row, in order, with id, pdf_path and page_number of the row, the caption of
\* the row or, when the row has none, its pdf_filename, and the keywords of the
\* row or, when the row has none, the empty list.
C14_RowMapping ==
  \A c \in Done :
    (calls[c].reqs > 0 /\ calls[c].resp.ok /\ calls[c].reply.data.results # None) =>
      LET rows == calls[c].reply.data.results[1]
          res == calls[c].resp.results
      IN
        /\ Len(res) = Len(rows)
        /\ \A i \in DOMAIN rows :
             /\ res[i].id = rows[i].id
             /\ res[i].pdf_path = rows[i].pdf_path
             /\ res[i].page_number = rows[i].page_number
             /\ res[i].caption = IF rows[i].caption = None THEN rows[i].pdf_filename
                                 ELSE rows[i].caption[1]
             /\ res[i].keywords = IF rows[i].keywords = None THEN <<>>
                                  ELSE rows[i].keywords[1]

\* C14 as amended: the same, with the pdf_filename as caption also when the
\* caption of the row is the empty string.
C14_RowMappingFalsyCaption ==
  \A c \in Done :
    (calls[c].reqs > 0 /\ calls[c].resp.ok /\ calls[c].reply.data.results # None) =>
      LET rows == calls[c].reply.data.results[1]
          res == calls[c].resp.results
      IN
        /\ Len(res) = Len(rows)
        /\ \A i \in DOMAIN rows :
             /\ res[i].id = rows[i].id
             /\ res[i].pdf_path = rows[i].pdf_path
             /\ res[i].page_number = rows[i].page_number
             /\ res[i].caption = IF rows[i].caption \in {None, Some(<<>>)}
                                 THEN rows[i].pdf_filename
                                 ELSE rows[i].caption[1]
             /\ res[i].keywords = IF rows[i].keywords = None THEN <<>>
                                  ELSE rows[i].keywords[1]

\* Answers with a captioned row after an uncaptioned one, and with a row of
\* empty caption.
C14_Witness ==
  \E c, d \in Done :
    /\ calls[c].reqs = 1 /\ calls[c].resp.ok
    /\ calls[c].reply.data.results = Some(<<Row2, Row1>>)
    /\ calls[d].reqs = 1 /\ calls[d].resp.ok
    /\ calls[d].reply.data.results = Some(<<Row3>>)

(***************************************************************************)
(* The lazy loader of pdf.js (getPdfjs), one per module.                   *)
(***************************************************************************)
\* The modules that declare pdfjsPromise and getPdfjs.
Modules == {"upload-page", "search-page"}

NoCaller == [m |-> "none", st |-> "none", awaits |-> 0]

\* Mutant: the loader caches the loaded library, not the promise.
ImportNeeded_CachesHandle(p) == p \in {"null", "pending"}

\* if (!pdfjsPromise)
ImportNeeded(p) == p = "null"

\* getPdfjs up to its await of pdfjsPromise: the test and the assignment are
\* in one synchronous piece of code.
getPdfjs(c, m) ==
  /\ callers[c].st = "none"
  /\ pdfjsPromise' = [pdfjsPromise EXCEPT ![m] = IF ImportNeeded(@) THEN "pending" ELSE @]
  /\ imports' = [imports EXCEPT ![m] = IF ImportNeeded(pdfjsPromise[m]) THEN @ + 1 ELSE @]
  /\ callers' = [callers EXCEPT ![c] = [m |-> m, st |-> "awaiting", awaits |-> imports'[m]]]
  /\ UNCHANGED <<uploadVars, searchVars, viewVars, routeVars, lifeVars>>

\* How a dynamic import can end.
ImportOutcomes == {"resolved", "rejected"}

\* The promise of import("pdfjs-dist/build/pdf") settles.
ImportSettle(m, o) ==
  /\ pdfjsPromise[m] = "pending"
  /\ pdfjsPromise' = [pdfjsPromise EXCEPT ![m] = o]
  /\ UNCHANGED <<imports, callers>>
  /\ UNCHANGED <<uploadVars, searchVars, viewVars, routeVars, lifeVars>>

\* getPdfjs from its await to its end: it sets workerSrc and returns the
\* library, or the rejection of the promise leaves it.
getPdfjsResume(c) ==
  /\ callers[c].st = "awaiting"
  /\ pdfjsPromise[callers[c].m] \in ImportOutcomes
  /\ callers' = [callers EXCEPT ![c].st =
                   IF pdfjsPromise[callers[c].m] = "resolved" THEN "returned" ELSE "threw"]
  /\ UNCHANGED <<pdfjsPromise, imports>>
  /\ UNCHANGED <<uploadVars, searchVars, viewVars, routeVars, lifeVars>>

\* C26: in each module the import of the library is started at most once, and
\* every call of getPdfjs awaits the promise of that one import.
C26_LoadedOnce ==
  /\ \A m \in Modules : imports[m] <= 1
  /\ \A c \in DOMAIN callers :
       callers[c].st # "none" =>
         /\ callers[c].awaits = 1
         /\ pdfjsPromise[callers[c].m] # "null"

\* Two calls in the same module are suspended on the one import, which has
\* not finished.
C26_Witness ==
  \E m \in Modules :
    /\ imports[m] = 1
    /\ pdfjsPromise[m] = "pending"
    /\ \E c, d \in DOMAIN callers :
         /\ c # d
         /\ callers[c].m = m /\ callers[d].m = m
         /\ callers[c].st = "awaiting" /\ callers[d].st = "awaiting"

(***************************************************************************)
(* Navigation between the pages (app/page.tsx) and the effect of           *)
(* PdfThumbnail.                                                           *)
(***************************************************************************)
\* The component of page c is the instance the model follows, and is mounted.
Mounted(c) == currentPage = c /\ c \notin unmounted

\* The cleanup of the effect of PdfThumbnail: mounted = false.
CleanedUp(ts) == [k \in DOMAIN ts |-> [ts[k] EXCEPT !.mounted = FALSE]]

\* onClick of a navigation button: the component of the page that is left is
\* unmounted and the one of page p is mounted (the mount effect of SearchPage
\* sends its listing request). The model follows the first instance of each
\* page component.
setCurrentPage(p) ==
  /\ p # currentPage
  /\ currentPage \notin unmounted
  /\ currentPage' = p
  /\ unmounted' = unmounted \cup {currentPage}
  /\ listing' = IF p = "search" THEN [st |-> "sent", items |-> <<>>] ELSE listing
  /\ thumbs' = IF currentPage = "search" THEN CleanedUp(thumbs) ELSE thumbs
  /\ UNCHANGED <<searchQuery, items, loading, searches, nextReq, lastResp>>
  /\ UNCHANGED <<uploadVars, viewVars, routeVars, libVars>>

\* The props of a PdfThumbnail: the grid passes the url, the list also width 64.
ThumbProps ==
  { [url |-> "/samples/a.pdf", width |-> 300],
    [url |-> "/samples/b.pdf", width |-> 300],
    [url |-> "/samples/a.pdf", width |-> 64] }

\* The effect of a PdfThumbnail runs, at its mount or because url or width
\* changed: the cleanup of the run before it, then let mounted = true.
ThumbEffect(props) ==
  /\ Mounted("search")
  /\ items # <<>>
  /\ Len(thumbs) < MaxRuns
  /\ IF thumbs = <<>> THEN TRUE ELSE thumbs[Len(thumbs)].props # props
  /\ thumbs' = Append(CleanedUp(thumbs), [props |-> props, mounted |-> TRUE, st |-> "rendering"])
  /\ UNCHANGED <<currentPage, unmounted>>
  /\ UNCHANGED <<uploadVars, searchVars, viewVars, routeVars, libVars>>

ThumbOutcomes == {"rendered", "threw"}

\* What a run of the effect does at its end: if (mounted) setSrc(...).
ThumbUpdate(run, o) ==
  IF run.mounted THEN (IF o = "rendered" THEN "set" ELSE "cleared") ELSE "dropped"

\* A run of the effect of PdfThumbnail reaches its end.
ThumbSettle(k, o) ==
  /\ k \in DOMAIN thumbs
  /\ thumbs[k].st = "rendering"
  /\ thumbs' = [thumbs EXCEPT ![k].st = ThumbUpdate(thumbs[k], o)]
  /\ UNCHANGED <<currentPage, unmounted>>
  /\ UNCHANGED <<uploadVars, searchVars, viewVars, routeVars, libVars>>

InitUpload ==
  /\ variant \in {"real", "sim"}
  /\ uploadFiles = <<>>
  /\ nextId = 1
  /\ xfer = [id \in 1..MaxFiles |-> [n |-> 0, st |-> "none"]]
  /\ ramp = {}
  /\ scans = [id \in 1..MaxFiles |-> "none"]

InitSearch ==
  /\ searchQuery = <<>>
  /\ items = <<>>
  /\ loading = FALSE
  /\ searches = [n \in 1..MaxSearches |-> NoSearch]
  /\ nextReq = 1
  /\ lastResp = [n |-> 0, results |-> <<>>]
  /\ listing = [st |-> IF page = "real" THEN "sent" ELSE "none", items |-> <<>>]

InitView ==
  /\ sortBy = "date"
  /\ selectedTypes = <<>>
  /\ selectedTags = <<>>

InitRoute == calls = [c \in 1..MaxCalls |-> NoCall]

InitLib ==
  /\ pdfjsPromise = [m \in Modules |-> "null"]
  /\ imports = [m \in Modules |-> 0]
  /\ callers = [c \in 1..MaxCallers |-> NoCaller]

\* Home starts on the upload page. The specifications of a single page leave
\* the navigation out.
InitLife ==
  /\ currentPage = "upload"
  /\ unmounted = {}
  /\ thumbs = <<>>

Init ==
  /\ page = "real"
  /\ InitUpload /\ InitSearch /\ InitView /\ InitRoute /\ InitLib /\ InitLife

\* The session on either search page (the upload page plays no part in it).
InitEitherPage ==
  /\ page \in {"real", "mock"}
  /\ InitUpload /\ variant = "real"
  /\ InitSearch /\ InitView /\ InitRoute /\ InitLib /\ InitLife

NextUpload ==
  \/ \E sel \in Selectable : handleFiles(sel)
  \/ \E id \in 1..MaxFiles : uploadOne(id)
  \/ uploadAll
  \/ \E id \in 1..MaxFiles : RampTick(id)
  \/ \E id \in 1..MaxFiles, o \in UploadOutcomes : UploadSettle(id, o)
  \/ \E id \in 1..MaxFiles : removeFile(id)
  \/ \E id \in 1..MaxFiles : simulateUpload(id)
  \/ simUploadAll
  \/ \E id \in 1..MaxFiles, r \in SimSteps : SimTick(id, r)

SpecUpload == Init /\ [][NextUpload]_vars

NextSearch ==
  \/ \E q \in Queries : setSearchQuery(q)
  \/ \E via \in {"button", "enter"} : runSearch(via)
  \/ \E n \in 1..MaxSearches, o \in SearchOutcomes, res \in ResultLists : SearchSettle(n, o, res)
  \/ \E o \in SearchOutcomes, res \in ResultLists : ListingSettle(o, res)

SpecSearch == Init /\ [][NextSearch]_vars

NextView ==
  \/ \E q \in ViewQueries : setSearchQuery(q)
  \/ \E type \in TypeLabels : toggleType(type)
  \/ \E tag \in Range(allTags) : toggleTag(tag)
  \/ \E key \in SortKeys : setSortBy(key)
  \/ \E o \in SearchOutcomes, res \in ViewLists : ListingSettle(o, res)
  \/ \E via \in {"button", "enter"} : nextReq <= MaxViewSearches /\ runSearch(via)
  \/ \E n \in 1..MaxSearches, o \in SearchOutcomes, res \in ViewLists : SearchSettle(n, o, res)

SpecView == InitEitherPage /\ [][NextView]_vars

NextRoute ==
  \/ \E c \in 1..MaxCalls, body \in RouteBodies : RoutePost(c, body)
  \/ \E c \in 1..MaxCalls, reply \in BackendReplies : RouteBackend(c, reply)

SpecRoute == Init /\ [][NextRoute]_vars

\* The backend variant of the upload page with the responses of its re-scan
\* requests.
NextScan ==
  \/ \E sel \in Selectable : handleFiles(sel)
  \/ \E id \in 1..MaxFiles : uploadOne(id)
  \/ uploadAll
  \/ \E id \in 1..MaxFiles : RampTick(id)
  \/ \E id \in 1..MaxFiles, o \in UploadOutcomes : UploadSettle(id, o)
  \/ \E id \in 1..MaxFiles, o \in ScanOutcomes : ScanSettle(id, o)
  \/ \E id \in 1..MaxFiles : removeFile(id)

InitScan == Init /\ variant = "real"

SpecScan == InitScan /\ [][NextScan]_vars

NextPdfjs ==
  \/ \E c \in 1..MaxCallers, m \in Modules : getPdfjs(c, m)
  \/ \E m \in Modules, o \in ImportOutcomes : ImportSettle(m, o)
  \/ \E c \in 1..MaxCallers : getPdfjsResume(c)

SpecPdfjs == Init /\ [][NextPdfjs]_vars

\* The session from the mount of Home: the upload page is shown, the search
\* page has not been mounted and has sent nothing.
InitUnmount ==
  /\ page = "real"
  /\ InitUpload /\ variant = "real"
  /\ searchQuery = <<>>
  /\ items = <<>>
  /\ loading = FALSE
  /\ searches = [n \in 1..MaxSearches |-> NoSearch]
  /\ nextReq = 1
  /\ lastResp = [n |-> 0, results |-> <<>>]
  /\ listing = [st |-> "none", items |-> <<>>]
  /\ InitView /\ InitRoute /\ InitLib /\ InitLife

NextUnmount ==
  \/ \E p \in {"upload", "search"} : setCurrentPage(p)
  \/ \E sel \in SelectionsUpTo[MaxLifeFiles] :
       Mounted("upload") /\ nextId = 1 /\ handleFiles(sel)
  \/ \E id \in 1..MaxFiles : Mounted("upload") /\ uploadOne(id)
  \/ \E id \in 1..MaxFiles : RampTick(id)
  \/ \E id \in 1..MaxFiles, o \in UploadOutcomes : UploadSettle(id, o)
  \/ \E via \in {"button", "enter"} :
       Mounted("search") /\ nextReq <= MaxLifeSearches /\ runSearch(via)
  \/ \E n \in 1..MaxSearches, o \in SearchOutcomes, res \in ResultLists : SearchSettle(n, o, res)
  \/ \E o \in SearchOutcomes, res \in ResultLists : ListingSettle(o, res)
  \/ \E props \in ThumbProps : ThumbEffect(props)
  \/ \E k \in 1..MaxRuns, o \in ThumbOutcomes : ThumbSettle(k, o)

SpecUnmount == InitUnmount /\ [][NextUnmount]_vars

====
